---- MODULE Spec2Model ----
(***************************************************************************)
(* Step-response acquisition: the device side (step_response.py: a timer   *)
(* interrupt fills an integer queue, the main context waits for it to be   *)
(* full, stops the timer and prints the queue as CSV lines and "End") and  *)
(* the host side (gui.py get_data: serial handshake and line parser).      *)
(***************************************************************************)
EXTENDS Integers, Sequences, FiniteSets, TLC

(***************************************************************************)
(* Bounds of the model                                                     *)
(***************************************************************************)
\* largest queue capacity explored (IntQueue(size), size in 1..MaxQueueSize)
MaxQueueSize == 3
\* timer ticks explored after the queue has become full, per session
MaxOverrun == 2
\* calls of step_response explored on the same module-level queue
MaxSessions == 2
\* lines explored on the wire after the reboot message
MaxStream == 3

(***************************************************************************)
(* Program constants of step_response.py                                   *)
(***************************************************************************)
TIMER_INTERVAL == 10
ADC_RESOLUTION == 4096
\* MAX_VOLTAGE = 3.3, kept in tenths of a volt
MAX_VOLTAGE_TENTHS == 33
\* gui.py: for i in range(6)
BOOT_LINES == 6

\* readings adc0.read() may return (12-bit converter)
Samples == {0, 2048, 4095}
\* arguments passed as period_ms
Periods == {-10, 0, 3, 10, 20, 2000}
\* what IntQueue.put does on a full queue
Policies == {"drop", "overwrite"}

VARIABLES
    \* ---- device: step_response.py ----
    size,        \* capacity of int_queue
    policy,      \* behaviour of the queue library's put on a full queue
    queue,       \* contents of int_queue, oldest first
    overflows,   \* overflow count reported by the program
    dpc,         \* position of the main context
    period_ms,   \* argument of the running call of step_response
    f,           \* timer frequency computed by the call
    timerOn,     \* tim0 is initialised and calls timer_int
    pc0,         \* level of the stimulus pin
    t,           \* local t of print_vals
    out,         \* lines printed by the running call
    pushed,      \* history: values handed to int_queue.put in this call
    overrun,     \* history: puts made on a full queue in this call
    session,     \* calls of step_response made so far
    derr,        \* exception step_response ended with, "" for none
    pin_lows,    \* history: pc0.value(0) calls made in this call
    completed,   \* history: calls that have printed "End"
    \* ---- host: gui.py get_data ----
    hpc,         \* position in get_data
    portOpen,    \* the serial port is open
    wire,        \* lines the device sends after its reboot, not yet read
    sent,        \* operations get_data has performed on the port, in order
    banner_i,    \* boot lines read by the for loop
    data_str,    \* the decoded text of the last line read
    xdata,       \* x values collected
    ydata,       \* y values collected
    herr,        \* exception get_data ended with, "" for none
    log          \* history: lines read by the while loop, in order

devVars == <<size, policy, queue, overflows, dpc, period_ms, f, timerOn, pc0,
             t, out, pushed, overrun, session, derr, pin_lows, completed>>

hostVars == <<hpc, portOpen, wire, sent, banner_i, data_str, xdata, ydata,
              herr, log>>

vars == <<devVars, hostVars>>

(***************************************************************************)
(* Device: pure helpers                                                    *)
(***************************************************************************)
\* (adc_val / ADC_RESOLUTION) * MAX_VOLTAGE as an exact fraction
adc_voltage(adc_val) ==
    [num |-> adc_val * MAX_VOLTAGE_TENTHS, den |-> ADC_RESOLUTION * 10]

\* the line print('' + str(t) + ',' + str(v)) writes
DataLine(tm, v) == <<"data", tm, v>>
\* the line print('End') writes
EndLine == <<"End">>

\* int_queue.full()
full(q) == Len(q) >= size
\* faulty test: the last entry is not seen
any_but_last(q) == Len(q) > 1
\* int_queue.any()
any(q) == Len(q) > 0

\* faulty put: no capacity check, the queue grows
put_unbounded(q, val) == Append(q, val)

\* int_queue.put(val): appends while there is room; on a full queue the
\* library either discards val or overwrites the oldest entry
put(q, val) ==
    IF Len(q) < size THEN Append(q, val)
    ELSE IF policy = "drop" THEN q
    ELSE Append(Tail(q), val)

(***************************************************************************)
(* Device: the timer interrupt                                             *)
(***************************************************************************)
\* timer_int: val = adc0.read(); int_queue.put(val). An interrupt handler:
\* it preempts the main context and runs to completion before the main
\* context resumes, so it is one step
timer_int ==
    /\ timerOn
    /\ full(queue) => overrun < MaxOverrun
    /\ \E val \in Samples :
        /\ queue' = put(queue, val)
        /\ pushed' = Append(pushed, val)
    /\ overrun' = IF full(queue) THEN overrun + 1 ELSE overrun
    /\ UNCHANGED <<size, policy, overflows, dpc, period_ms, f, timerOn, pc0,
                   t, out, session, derr,
                   pin_lows, completed, hostVars>>

(***************************************************************************)
(* Device: the main context, step_response(period_ms)                      *)
(***************************************************************************)
\* a // b of Python for a >= 0 and b # 0: the quotient rounded down
floordiv(a, b) ==
    IF b > 0 THEN a \div b ELSE -((a + (-b) - 1) \div (-b))

\* the call and f = 1000 // period_ms (ZeroDivisionError for period_ms = 0)
Call ==
    /\ dpc \in {"idle", "done", "raised"}
    /\ session < MaxSessions
    /\ \E p \in Periods :
        /\ period_ms' = p
        /\ IF p = 0
           THEN /\ dpc' = "raised"
                /\ derr' = "ZeroDivisionError"
                /\ f' = f
           ELSE /\ dpc' = "init_timer"
                /\ derr' = ""
                /\ f' = floordiv(1000, p)
    /\ session' = session + 1
    /\ out' = <<>>
    /\ pushed' = <<>>
    /\ overrun' = 0
    /\ pin_lows' = 0
    /\ UNCHANGED <<size, policy, queue, overflows, timerOn, pc0, t, completed,
                   hostVars>>

\* tim0.init(freq=f, callback=timer_int)
TimInit == TRUE

\* faulty check: every frequency is taken
any_freq(freq) == FALSE
\* Timer.init raises ValueError for a frequency that is not positive
bad_freq(freq) == freq <= 0

\* pc0 = pyb.Pin(PC0, OUT_PP), which sets no level; tim0 = pyb.Timer(2);
\* tim0.init(freq=f, callback=timer_int)
InitTimer ==
    /\ dpc = "init_timer"
    /\ IF bad_freq(f)
       THEN /\ dpc' = "raised"
            /\ derr' = "ValueError"
            /\ timerOn' = timerOn
       ELSE /\ dpc' = "pin_on"
            /\ derr' = derr
            /\ timerOn' = TimInit
    /\ UNCHANGED <<size, policy, queue, overflows, period_ms, f, pc0, t, out,
                   pushed, overrun, session, pin_lows, completed, hostVars>>

\* pc0.value(1)
PinOn ==
    /\ dpc = "pin_on"
    /\ pc0' = 1
    /\ dpc' = "poll"
    /\ UNCHANGED <<size, policy, queue, overflows, period_ms, f, timerOn, t,
                   out, pushed, overrun, session, derr,
                   pin_lows, completed, hostVars>>

\* while not int_queue.full(): continue
Poll ==
    /\ dpc = "poll"
    /\ dpc' = IF full(queue) THEN "deinit" ELSE "poll"
    /\ UNCHANGED <<size, policy, queue, overflows, period_ms, f, timerOn, pc0,
                   t, out, pushed, overrun, session, derr,
                   pin_lows, completed, hostVars>>

\* faulty stop: the timer keeps running
TimDeinitNoStop == timerOn
\* tim0.deinit()
TimDeinit == FALSE

Deinit ==
    /\ dpc = "deinit"
    /\ timerOn' = TimDeinit
    /\ dpc' = "pin_off"
    /\ UNCHANGED <<size, policy, queue, overflows, period_ms, f, pc0, t, out,
                   pushed, overrun, session, derr,
                   pin_lows, completed, hostVars>>

\* faulty stimulus: the pin is left at its level
pin_left_as_is == pc0
\* the level pc0.value(0) sets
pin_low == 0

\* pc0.value(0), then print_vals() is entered: t = 0
PinOff ==
    /\ dpc = "pin_off"
    /\ pc0' = pin_low
    /\ pin_lows' = pin_lows + 1
    /\ t' = 0
    /\ dpc' = "drain"
    /\ UNCHANGED <<size, policy, queue, overflows, period_ms, f, timerOn, out,
                   pushed, overrun, session, derr, completed, hostVars>>

\* one iteration of print_vals: print(str(t) + ',' + str(adc_voltage(get())))
DrainOne ==
    /\ dpc = "drain"
    /\ any(queue)
    /\ out' = Append(out, DataLine(t, adc_voltage(Head(queue))))
    /\ queue' = Tail(queue)
    /\ t' = t + TIMER_INTERVAL
    /\ UNCHANGED <<size, policy, overflows, dpc, period_ms, f, timerOn, pc0,
                   pushed, overrun, session, derr,
                   pin_lows, completed, hostVars>>

\* print_vals returns when int_queue.any() is false
DrainDone ==
    /\ dpc = "drain"
    /\ ~any(queue)
    /\ dpc' = "end"
    /\ UNCHANGED <<size, policy, queue, overflows, period_ms, f, timerOn, pc0,
                   t, out, pushed, overrun, session, derr,
                   pin_lows, completed, hostVars>>

\* print('End') and return
PrintEnd ==
    /\ dpc = "end"
    /\ out' = Append(out, EndLine)
    /\ dpc' = "done"
    /\ completed' = completed + 1
    /\ UNCHANGED <<size, policy, queue, overflows, period_ms, f, timerOn, pc0,
                   t, pushed, overrun, session, derr, pin_lows, hostVars>>

MainStep ==
    \/ Call
    \/ InitTimer
    \/ PinOn
    \/ Poll
    \/ Deinit
    \/ PinOff
    \/ DrainOne
    \/ DrainDone
    \/ PrintEnd

(***************************************************************************)
(* Host: bytes, lines and the conversions get_data applies to them         *)
(***************************************************************************)
\* A line is the sequence of bytes readline() returns, terminator included.
\* Bytes are written as one-character strings; CR, LF and a byte above 127:
CR == "CR"
LF == "LF"
HI == "0x80"

Digits == {"0", "1", "2", "3", "4", "5", "6", "7", "8", "9"}
Whitespace == {" ", CR, LF}

\* lines the device side may deliver in the read phase
Lines == {
    <<"0", ",", "1", ".", "0", CR, LF>>,        \* 0,1.0
    <<"1", "0", ",", "1", ".", "2", CR, LF>>,   \* 10,1.2
    <<"b", ",", "d", CR, LF>>,                  \* two fields, no number
    <<"7", ",", "x", CR, LF>>,                  \* second field no number
    <<"5", CR, LF>>,                            \* one field
    <<"3", ",", " ", "4", CR, LF>>,             \* blank before a number
    <<"1", ",", "2", ",", "3", CR, LF>>,        \* three fields
    <<"E", "n", "d", CR, LF>>,                  \* the sentinel
    <<"E", "n", "d", LF>>,                      \* the sentinel, LF only
    <<"1", ",", "2", ".", "5", LF>>,            \* 1,2.5 LF only
    <<LF>>,                                     \* empty line, LF only
    <<HI, CR, LF>>                              \* a noise byte
}

\* the lines of the reboot message read and discarded before the trigger
BootLine == <<"M", "P", "Y", CR, LF>>

\* sequences over S of length at most n
RECURSIVE SeqsUpTo(_, _)
SeqsUpTo(S, n) ==
    IF n = 0 THEN {<<>>}
    ELSE LET shorter == SeqsUpTo(S, n - 1)
         IN  shorter \cup {Append(q, x) : q \in shorter, x \in S}

\* line[:-2]
DropLastTwo(line) ==
    IF Len(line) <= 2 THEN <<>> ELSE SubSeq(line, 1, Len(line) - 2)

\* bytes.decode('ascii') raises UnicodeDecodeError on a byte above 127
Decodable(bytes) == \A i \in 1..Len(bytes) : bytes[i] # HI

\* str.split(','): the fields between the commas, at least one
RECURSIVE split(_)
split(str) ==
    IF \A i \in 1..Len(str) : str[i] # "," THEN <<str>>
    ELSE LET k == CHOOSE i \in 1..Len(str) :
                     /\ str[i] = ","
                     /\ \A j \in 1..(i - 1) : str[j] # ","
         IN  <<SubSeq(str, 1, k - 1)>> \o split(SubSeq(str, k + 1, Len(str)))

\* str.strip(): leading and trailing whitespace removed
RECURSIVE strip(_)
strip(str) ==
    IF str = <<>> THEN <<>>
    ELSE IF Head(str) \in Whitespace THEN strip(Tail(str))
    ELSE IF str[Len(str)] \in Whitespace
         THEN strip(SubSeq(str, 1, Len(str) - 1))
    ELSE str

DigitVal(c) ==
    CASE c = "0" -> 0 [] c = "1" -> 1 [] c = "2" -> 2 [] c = "3" -> 3
      [] c = "4" -> 4 [] c = "5" -> 5 [] c = "6" -> 6 [] c = "7" -> 7
      [] c = "8" -> 8 [] c = "9" -> 9

\* float(str) succeeds on the decimal forms the lines can hold: digits with
\* at most one point and at least one digit ("2." and ".5" included)
IsFloat(str) ==
    /\ \A i \in 1..Len(str) : str[i] \in Digits \cup {"."}
    /\ Cardinality({i \in 1..Len(str) : str[i] = "."}) <= 1
    /\ \E i \in 1..Len(str) : str[i] \in Digits

\* the digits of str read as an integer
RECURSIVE DigitsVal(_)
DigitsVal(str) ==
    IF str = <<>> THEN 0
    ELSE 10 * DigitsVal(SubSeq(str, 1, Len(str) - 1))
         + DigitVal(str[Len(str)])

\* a decimal m * 10^-e without trailing zeros after the point
RECURSIVE Normal(_, _)
Normal(m, e) ==
    IF e > 0 /\ m % 10 = 0 THEN Normal(m \div 10, e - 1)
    ELSE [m |-> m, e |-> e]

\* the value float(str) returns, as a normalised decimal
float(str) ==
    LET dots == {i \in 1..Len(str) : str[i] = "."}
        k    == IF dots = {} THEN Len(str) + 1 ELSE CHOOSE i \in dots : TRUE
        ip   == SubSeq(str, 1, k - 1)
        fp   == SubSeq(str, k + 1, Len(str))
    IN  Normal(DigitsVal(ip \o fp), Len(fp))

term_str == <<"E", "n", "d">>

\* faulty conversion: x is appended before y is converted
convert_x_first(xs, ys, data) ==
    IF ~IsFloat(strip(data[1])) THEN <<xs, ys>>
    ELSE IF ~IsFloat(strip(data[2]))
         THEN <<Append(xs, float(strip(data[1]))), ys>>
    ELSE <<Append(xs, float(strip(data[1]))),
           Append(ys, float(strip(data[2])))>>

\* the try block: both fields are converted, then both are appended; a
\* conversion that raises leaves both lists as they were
convert(xs, ys, data) ==
    IF IsFloat(strip(data[1])) /\ IsFloat(strip(data[2]))
    THEN <<Append(xs, float(strip(data[1]))),
           Append(ys, float(strip(data[2])))>>
    ELSE <<xs, ys>>

\* faulty loop: an unusable line ends get_data
skip_line_aborts == "raised"
\* a line that is skipped leaves the loop running
skip_line == "loop"

\* the body of the while loop from the split on: the lists after the line
\* and where control goes
loop_body(xs, ys, str) ==
    LET data == split(str)
    IN  IF Len(data) >= 2
        THEN LET r == convert(xs, ys, data)
             IN  [xs |-> r[1], ys |-> r[2],
                  pc |-> IF r = <<xs, ys>> THEN skip_line ELSE "loop"]
        ELSE [xs |-> xs, ys |-> ys, pc |-> skip_line]

(***************************************************************************)
(* Host: get_data()                                                        *)
(***************************************************************************)
\* entry: xdata = [], ydata = []
GetData ==
    /\ hpc = "idle"
    /\ xdata' = <<>>
    /\ ydata' = <<>>
    /\ hpc' = "open"
    /\ UNCHANGED <<portOpen, wire, sent, banner_i, data_str, herr, log>>
    /\ UNCHANGED devVars

\* with Serial(PORT_NAME, BAUD_RATE) as ser
Open ==
    /\ hpc = "open"
    /\ portOpen' = TRUE
    /\ hpc' = "flush_out"
    /\ UNCHANGED <<wire, sent, banner_i, data_str, xdata, ydata, herr, log>>
    /\ UNCHANGED devVars

\* ser.reset_output_buffer()
FlushOut ==
    /\ hpc = "flush_out"
    /\ sent' = Append(sent, <<"reset_output_buffer">>)
    /\ hpc' = "abort"
    /\ UNCHANGED <<portOpen, wire, banner_i, data_str, xdata, ydata, herr,
                   log>>
    /\ UNCHANGED devVars

\* ser.write(b'\x03')
Abort ==
    /\ hpc = "abort"
    /\ sent' = Append(sent, <<"write", <<"0x03">>>>)
    /\ hpc' = "flush_in"
    /\ UNCHANGED <<portOpen, wire, banner_i, data_str, xdata, ydata, herr,
                   log>>
    /\ UNCHANGED devVars

\* ser.reset_input_buffer()
FlushIn ==
    /\ hpc = "flush_in"
    /\ sent' = Append(sent, <<"reset_input_buffer">>)
    /\ hpc' = "reboot"
    /\ UNCHANGED <<portOpen, wire, banner_i, data_str, xdata, ydata, herr,
                   log>>
    /\ UNCHANGED devVars

\* ser.write(b'\x02\x04')
Reboot ==
    /\ hpc = "reboot"
    /\ sent' = Append(sent, <<"write", <<"0x02", "0x04">>>>)
    /\ banner_i' = 0
    /\ hpc' = "banner"
    /\ UNCHANGED <<portOpen, wire, data_str, xdata, ydata, herr, log>>
    /\ UNCHANGED devVars

\* for i in range(6): ser.readline(); readline blocks until a line arrives
ReadBanner ==
    /\ hpc = "banner"
    /\ wire # <<>>
    /\ wire' = Tail(wire)
    /\ banner_i' = banner_i + 1
    /\ hpc' = IF banner_i + 1 = BOOT_LINES THEN "trigger" ELSE "banner"
    /\ UNCHANGED <<portOpen, sent, data_str, xdata, ydata, herr, log>>
    /\ UNCHANGED devVars

\* ser.write(b'3\n'); term_str = 'End'; data_str = ''
Trigger ==
    /\ hpc = "trigger"
    /\ sent' = Append(sent, <<"write", <<"3", LF>>>>)
    /\ data_str' = <<>>
    /\ hpc' = "loop"
    /\ UNCHANGED <<portOpen, wire, banner_i, xdata, ydata, herr, log>>
    /\ UNCHANGED devVars

\* faulty exit: the port is left as it was
port_left_as_is == portOpen
\* leaving the with block, by return or by exception: Serial.__exit__ closes
\* the port
with_exit == FALSE

\* one iteration of while term_str != data_str: readline (blocks until a
\* line arrives), line[:-2], decode, then the loop body; an exception
\* leaves the with block, which closes the port
LoopRead ==
    /\ hpc = "loop"
    /\ term_str # data_str
    /\ wire # <<>>
    /\ LET line  == Head(wire)
           bytes == DropLastTwo(line)
       IN  /\ wire' = Tail(wire)
           /\ log' = Append(log, line)
           /\ IF ~Decodable(bytes)
              THEN /\ hpc' = "raised"
                   /\ herr' = "UnicodeDecodeError"
                   /\ portOpen' = with_exit
                   /\ UNCHANGED <<data_str, xdata, ydata>>
              ELSE LET r == loop_body(xdata, ydata, bytes)
                   IN  /\ data_str' = bytes
                       /\ xdata' = r.xs
                       /\ ydata' = r.ys
                       /\ hpc' = r.pc
                       /\ herr' = herr
                       /\ portOpen' = IF r.pc = "loop" THEN portOpen
                                      ELSE with_exit
    /\ UNCHANGED <<sent, banner_i>>
    /\ UNCHANGED devVars

\* the loop test finds data_str equal to term_str: the with block is left,
\* the port is closed and (xdata, ydata) is returned
LoopExit ==
    /\ hpc = "loop"
    /\ term_str = data_str
    /\ portOpen' = with_exit
    /\ hpc' = "returned"
    /\ UNCHANGED <<wire, sent, banner_i, data_str, xdata, ydata, herr, log>>
    /\ UNCHANGED devVars

\* a port operation raises SerialException: the constructor (the port is
\* never opened), a buffer reset, a write or a readline; the exception
\* leaves the with block and get_data
TransportFault ==
    /\ \/ hpc \in {"open", "flush_out", "abort", "flush_in", "reboot",
                    "banner", "trigger"}
       \/ hpc = "loop" /\ term_str # data_str
    /\ hpc' = "raised"
    /\ herr' = "SerialException"
    /\ portOpen' = with_exit
    /\ UNCHANGED <<wire, sent, banner_i, data_str, xdata, ydata, log>>
    /\ UNCHANGED devVars

(***************************************************************************)
(* Initial states and specifications                                       *)
(***************************************************************************)
DevIdle ==
    /\ queue = <<>>
    /\ overflows = 0
    /\ dpc = "idle"
    /\ period_ms = 10
    /\ f = 0
    /\ timerOn = FALSE
    /\ pc0 = 0
    /\ t = 0
    /\ out = <<>>
    /\ pushed = <<>>
    /\ overrun = 0
    /\ session = 0
    /\ derr = ""
    /\ pin_lows = 0
    /\ completed = 0

HostIdle ==
    /\ hpc = "idle"
    /\ portOpen = FALSE
    /\ sent = <<>>
    /\ banner_i = 0
    /\ data_str = <<>>
    /\ xdata = <<>>
    /\ ydata = <<>>
    /\ herr = ""
    /\ log = <<>>

\* the device alone, for every capacity and either put policy
Init ==
    /\ size \in 1..MaxQueueSize
    /\ policy \in Policies
    /\ DevIdle
    /\ HostIdle
    /\ wire = <<>>

Next ==
    \/ MainStep
    \/ timer_int

Spec == Init /\ [][Next]_vars

\* the host alone, for every stream of at most MaxStream lines that follows
\* the reboot message
HostInit ==
    /\ size = 1
    /\ policy = "drop"
    /\ DevIdle
    /\ HostIdle
    /\ wire \in {[i \in 1..BOOT_LINES |-> BootLine] \o stream :
                    stream \in SeqsUpTo(Lines, MaxStream)}

\* the steps get_data takes when no port operation fails
HostStep ==
    \/ GetData
    \/ Open
    \/ FlushOut
    \/ Abort
    \/ FlushIn
    \/ Reboot
    \/ ReadBanner
    \/ Trigger
    \/ LoopRead
    \/ LoopExit

HostNext ==
    \/ HostStep
    \/ TransportFault

HostSpec == HostInit /\ [][HostNext]_vars

(***************************************************************************)
(* The serial link: what print writes and how it reaches get_data          *)
(***************************************************************************)
DigitChar(d) ==
    CASE d = 0 -> "0" [] d = 1 -> "1" [] d = 2 -> "2" [] d = 3 -> "3"
      [] d = 4 -> "4" [] d = 5 -> "5" [] d = 6 -> "6" [] d = 7 -> "7"
      [] d = 8 -> "8" [] d = 9 -> "9"

\* str(n) for an integer n >= 0
RECURSIVE IntStr(_)
IntStr(n) ==
    IF n < 10 THEN <<DigitChar(n)>>
    ELSE IntStr(n \div 10) \o <<DigitChar(n % 10)>>

\* trailing zeros removed, one digit kept
RECURSIVE StripZeros(_)
StripZeros(str) ==
    IF Len(str) > 1 /\ str[Len(str)] = "0"
    THEN StripZeros(SubSeq(str, 1, Len(str) - 1))
    ELSE str

RECURSIVE Pow10(_)
Pow10(k) == IF k = 0 THEN 1 ELSE 10 * Pow10(k - 1)

\* rem / den, for rem < den, in units of 10^-k, rounded to the nearest:
\* long division, one decimal digit at a time
RECURSIVE Frac(_, _, _)
Frac(rem, den, k) ==
    IF k = 0 THEN (IF 2 * rem >= den THEN 1 ELSE 0)
    ELSE ((10 * rem) \div den) * Pow10(k - 1)
         + Frac((10 * rem) % den, den, k - 1)

\* the voltage v in millionths of a volt, rounded to the nearest
MicroVolts(v) == (v.num \div v.den) * Pow10(6) + Frac(v.num % v.den, v.den, 6)

\* str(v) for a voltage: decimal notation with the digits a single-precision
\* float prints for the readings in Samples ("0.0", "1.65", "3.299194")
FloatStr(v) ==
    LET micro == MicroVolts(v)
    IN  IntStr(micro \div Pow10(6)) \o <<".">>
        \o StripZeros(Tail(IntStr(Pow10(6) + (micro % Pow10(6)))))

\* the bytes print writes for a line: its text, then CR LF
PrintedBytes(line) ==
    IF line = EndLine THEN <<"E", "n", "d", CR, LF>>
    ELSE IntStr(line[2]) \o <<",">> \o FloatStr(line[3]) \o <<CR, LF>>

\* the output of a completed call reaches the host behind the reboot message
Deliver ==
    /\ dpc = "done"
    /\ hpc = "idle"
    /\ wire = <<>>
    /\ wire' = [i \in 1..BOOT_LINES |-> BootLine]
                \o [i \in 1..Len(out) |-> PrintedBytes(out[i])]
    /\ UNCHANGED <<hpc, portOpen, sent, banner_i, data_str, xdata, ydata,
                   herr, log>>
    /\ UNCHANGED devVars

\* device and host together: the device runs, the output of a completed
\* call is delivered, get_data reads it to its end
LinkNext ==
    \/ (hpc = "idle" /\ wire = <<>> /\ Next)
    \/ Deliver
    \/ ((hpc # "idle" \/ wire # <<>>) /\ HostNext)

LinkSpec == Init /\ [][LinkNext]_vars

FairSpec == Spec /\ WF_vars(MainStep)

(***************************************************************************)
(* Device: properties                                                      *)
(***************************************************************************)
IsData(line) == line[1] = "data"

\* C1: a call of step_response that completes has printed exactly `size`
\* data lines followed by exactly one "End" line and nothing after it, for
\* every interleaving of timer ticks with the main context; "End" is never
\* printed before the call completes.
C1_SessionEmitsCapacityThenEnd ==
    /\ dpc = "done" =>
        /\ Len(out) = size + 1
        /\ \A i \in 1..size : IsData(out[i])
        /\ out[size + 1] = EndLine
    /\ \A i \in 1..Len(out) :
        out[i] = EndLine => (i = Len(out) /\ dpc = "done")

\* a completed call during which a tick fired on the already full queue
C1_Witness ==
    /\ dpc = "done"
    /\ overrun > 0
    /\ size >= 2
    /\ Len(out) = size + 1

\* C2: the timestamp printed on the data line of index i (0-based) is
\* i * period_ms, the period the call was given.
C2_TimestampsFollowPeriod ==
    \A i \in 1..Len(out) :
        IsData(out[i]) => out[i][2] = (i - 1) * period_ms

\* C3: the samples printed by a completed call are the first `size` samples
\* timer_int pushed in that call, in push order.
C3_DrainIsFirstNPushed ==
    dpc = "done" =>
        /\ Len(out) >= size
        /\ Len(pushed) >= size
        /\ \A i \in 1..size : out[i][3] = adc_voltage(pushed[i])

\* C4: a put on a full queue leaves the stored entries and the length
\* unchanged and adds exactly one to the overflow count.
C4_PushOnFullDropsAndCounts ==
    [][(full(queue) /\ pushed' # pushed /\ Len(pushed') = Len(pushed) + 1)
        => (queue' = queue /\ overflows' = overflows + 1)]_vars

\* C5: an entry leaves the queue only while the timer is stopped, and from
\* the return of tim0.deinit() to the end of the call timer_int pushes
\* nothing, so no push is interleaved with the drain.
C5_NoPushInterleavedWithDrain ==
    [][/\ (Len(queue') < Len(queue) => (~timerOn /\ ~timerOn'))
       /\ (dpc \in {"pin_off", "drain", "end"} =>
              (pushed' = pushed /\ ~timerOn))]_vars

\* the drain has popped an entry after a tick had hit the full queue
C5_Witness ==
    /\ dpc = "drain"
    /\ Len(out) >= 1
    /\ any(queue)
    /\ overrun > 0
    /\ ~timerOn

\* C10: the wait for the queue to become full is bounded: the main context
\* always leaves the polling loop, for the timer stop or for a failure state.
C10_PollLoopIsLeft ==
    (dpc = "poll") ~> (dpc \in {"deinit", "failed"})

\* C12: a call with period_ms <= 0 is rejected with an exception before the
\* session starts: the stimulus pin is not set high, the timer is not
\* started, the queue is unchanged (empty) and no line is printed.
C12_NonPositivePeriodRejected ==
    (session > 0 /\ period_ms <= 0) =>
        /\ dpc \in {"init_timer", "raised"}
        /\ dpc = "raised" => derr \in {"ZeroDivisionError", "ValueError"}
        /\ pc0 = 0
        /\ ~timerOn
        /\ queue = <<>>
        /\ pushed = <<>>
        /\ out = <<>>

\* a negative period has been rejected after a completed session
C12_Witness ==
    /\ dpc = "raised"
    /\ period_ms < 0
    /\ derr = "ValueError"
    /\ completed = 1

\* C13: the stimulus pin is high before the timer is started, and timer_int
\* pushes no sample while the pin is not high.
C13_PinHighBeforeSampling ==
    [][/\ (timerOn' /\ ~timerOn) => pc0 = 1
       /\ Len(pushed') > Len(pushed) => pc0 = 1]_vars

\* C15: the queue never holds more than `size` entries; its length grows
\* only by a put of timer_int, and by one; it shrinks only by a get of the
\* drain, and by one; the full() poll changes nothing of the queue.
C15_QueueLengthDiscipline ==
    [][/\ Len(queue) <= size /\ Len(queue') <= size
       /\ Len(queue') > Len(queue) =>
              /\ Len(queue') = Len(queue) + 1
              /\ Len(pushed') = Len(pushed) + 1
              /\ dpc' = dpc
       /\ Len(queue') < Len(queue) =>
              /\ Len(queue') = Len(queue) - 1
              /\ dpc = "drain"
              /\ Len(out') = Len(out) + 1
              /\ pushed' = pushed
       /\ (dpc = "poll" /\ pushed' = pushed) => queue' = queue]_vars

\* a tick has hit the full queue of a capacity above one
C15_Witness ==
    /\ size >= 2
    /\ Len(queue) = size
    /\ overrun > 0
    /\ dpc = "poll"

\* C16: while the timer runs, its frequency f is at least 1 and is exactly
\* one tick every period_ms milliseconds: f * period_ms = 1000.
C16_FrequencyMatchesPeriod ==
    timerOn => (f >= 1 /\ f * period_ms = 1000)

\* C19: from the drain to the completion of the call the stimulus pin is low
\* and the timer is stopped; pc0.value(0) is called exactly once per call,
\* with the timer stopped.
C19_PinLowAndTimerOffWhileDraining ==
    [][/\ dpc' \in {"drain", "end", "done"} =>
              (pc0' = 0 /\ ~timerOn' /\ pin_lows' = 1)
       /\ pin_lows' > pin_lows => (~timerOn /\ pin_lows' = 1)]_vars

\* the second call on the same queue has drained and is about to print End
C19_Witness ==
    /\ dpc = "end"
    /\ completed = 1
    /\ pin_lows = 1
    /\ pc0 = 0
    /\ overrun > 0

\* C20: the queue is empty whenever no call is running, so the data lines
\* of a second completed call number `size` and are `size` consecutive
\* samples pushed during that call.
C20_SecondSessionIsFresh ==
    /\ dpc \in {"idle", "done", "raised"} => queue = <<>>
    /\ (dpc = "done" /\ completed >= 2) =>
        /\ Len(out) = size + 1
        /\ \E k \in 0..(Len(pushed) - size) :
              \A i \in 1..size : out[i] = DataLine((i - 1) * TIMER_INTERVAL,
                                                  adc_voltage(pushed[k + i]))

\* a second call has completed on the queue a first call had filled
C20_Witness ==
    /\ dpc = "done"
    /\ completed = 2
    /\ size >= 2
    /\ Len(out) = size + 1

(***************************************************************************)
(* Host: properties                                                        *)
(***************************************************************************)
\* the fields the read loop sees in a line: the decoded text split on commas
Fields(line) == split(DropLastTwo(line))

\* at least two fields, the first two of which convert to numbers
WellFormed(line) ==
    /\ Decodable(DropLastTwo(line))
    /\ Len(Fields(line)) >= 2
    /\ IsFloat(strip(Fields(line)[1]))
    /\ IsFloat(strip(Fields(line)[2]))

\* a line that decodes and is not well formed
Malformed(line) == Decodable(DropLastTwo(line)) /\ ~WellFormed(line)

\* the k-th field of each well-formed line of lines, as a number, in order
FieldValues(lines, k) ==
    LET good == SelectSeq(lines, WellFormed)
    IN  [i \in 1..Len(good) |-> float(strip(Fields(good[i])[k]))]

\* the line without its terminator, CR LF or LF
StripTerminator(line) ==
    LET n == Len(line)
    IN  IF n >= 2 /\ line[n - 1] = CR /\ line[n] = LF
        THEN SubSeq(line, 1, n - 2)
        ELSE IF n >= 1 /\ line[n] = LF THEN SubSeq(line, 1, n - 1)
        ELSE line

C7_MalformedLineIsSkipped ==
    [][log' # log =>
        LET line == Head(wire)
        IN  /\ Malformed(line) =>
                /\ xdata' = xdata
                /\ ydata' = ydata
                /\ hpc' = "loop"
                /\ herr' = ""
            /\ (WellFormed(line) /\ \E i \in 1..Len(log) : Malformed(log[i]))
                => /\ xdata' = Append(xdata, float(strip(Fields(line)[1])))
                   /\ ydata' = Append(ydata, float(strip(Fields(line)[2])))
                   /\ hpc' = "loop"]_vars

\* get_data has returned a point read after a malformed line
C7_Witness ==
    /\ hpc = "returned"
    /\ Len(xdata) >= 1
    /\ \E i \in 1..Len(log) : \E j \in (i + 1)..Len(log) :
        /\ Malformed(log[i])
        /\ DropLastTwo(log[i]) # term_str
        /\ WellFormed(log[j])

\* C8: the read loop stops at the first line whose text without its
\* terminator (CR LF or LF) is "End": no line is read after such a line,
\* and get_data returns only after one.
C8_StopsAtFirstSentinel ==
    /\ \A i \in 1..Len(log) :
        StripTerminator(log[i]) = term_str => i = Len(log)
    /\ hpc = "returned" =>
        (log # <<>> /\ StripTerminator(log[Len(log)]) = term_str)

\* C9: get_data never stays in the read loop forever: as long as it has
\* neither returned nor failed it can take a step of its own, also when the
\* stream has ended without the sentinel.
C9_MissingSentinelNeverHangs ==
    hpc \in {"returned", "raised"} \/ ENABLED HostStep

\* C11: in every final state of get_data, after the return and after any
\* exception (a failing port operation in the handshake or the read loop, a
\* line that does not decode), the serial port is closed.
C11_PortReleasedOnEveryExit ==
    hpc \in {"returned", "raised"} => ~portOpen

\* a readline of the read loop has failed after lines had been read
C11_Witness ==
    /\ hpc = "raised"
    /\ herr = "SerialException"
    /\ log # <<>>
    /\ ~portOpen

\* trigger parameters a caller of get_data may want sent
TriggerParams == {"3", "7"}

\* C14: before any line is read for the dataset, get_data has performed, in
\* this order and once each: reset of the output buffer, write of 0x03,
\* reset of the input buffer, write of 0x02 0x04, six discarded readlines,
\* and the write of the caller's trigger parameter as one line.
C14_HandshakeThenCallersTrigger ==
    \A p \in TriggerParams :
        (hpc \in {"loop", "returned"} \/ log # <<>>) =>
            /\ banner_i = BOOT_LINES
            /\ sent = << <<"reset_output_buffer">>,
                         <<"write", <<"0x03">>>>,
                         <<"reset_input_buffer">>,
                         <<"write", <<"0x02", "0x04">>>>,
                         <<"write", <<p, LF>>>> >>

\* C17: whatever bytes a line read in the read phase holds, the iteration
\* that reads it skips it or appends one point, and the loop goes on
\* without an error.
C17_NoLineFailsTheSession ==
    [][log' # log =>
        /\ hpc' = "loop"
        /\ herr' = ""
        /\ \/ (xdata' = xdata /\ ydata' = ydata)
           \/ (Len(xdata') = Len(xdata) + 1 /\ Len(ydata') = Len(ydata) + 1)
      ]_vars

\* C18: when get_data returns after reading the lines of one completed call
\* of step_response(period_ms) on a queue of capacity `size`, it returns
\* `size` points, xs[i] = i * period_ms and ys[i] the voltage of the i-th
\* drained sample (to the millionth of a volt), in the order printed; the
\* sentinel adds no point.
C18_HostReturnsDeviceSeries ==
    (hpc = "returned" /\ dpc = "done") =>
        /\ Len(xdata) = size
        /\ Len(ydata) = size
        /\ \A i \in 1..size :
            /\ i <= Len(xdata) => xdata[i] = Normal((i - 1) * period_ms, 0)
            /\ i <= Len(ydata) => ydata[i] = Normal(MicroVolts(out[i][3]), 6)

====
